---------------------------- MODULE Spec2Model ----------------------------
(***************************************************************************)
(* A model of two pieces of NanoGUI:                                       *)
(*   - RadioButton::toggle()  (include/nanogui/radiobutton.h)              *)
(*   - Screen                 (src/screen.cpp): the registry of screens,   *)
(*     construction / initialize / destruction, the setters, drawAll,      *)
(*     the input callbacks and resizeCallbackEvent.                        *)
(* Four specifications share the variables:                                *)
(*   SpecRadio : radio buttons under parents, toggled in any order         *)
(*   Spec      : several Screens and host windows, lifecycle and registry  *)
(*   SpecFrame : one constructed Screen, its setters, resize events, draws *)
(*   SpecEvents: several Screens on an Apple build, events delivered (also *)
(*               while a constructor polls) and frames drawn               *)
(***************************************************************************)
EXTENDS Integers, Sequences, FiniteSets, TLC

(***************************************************************************)
(* Bounds of the model.                                                    *)
(***************************************************************************)
NumWidgets == 3
\* Screen objects (slots an application can construct a Screen in)
NumScreens == 2
\* native window handles the host can hand out
NumWindows == 2
\* cursor kinds (Cursor::CursorCount), scaled down
CursorCount == 2
\* sets of CursorCount cursors the host can hold at once
MaxCursorSets == 2
\* show/hide calls counted before the counters stop the setter
MaxCalls == 2

(***************************************************************************)
(* Program constants.                                                      *)
(***************************************************************************)
\* default checkedIcon argument of the RadioButton constructor
ENTYPO_ICON_CHECK == 10003

VARIABLES
    \* ---- widget tree with radio buttons (SpecRadio) ----
    kind,          \* kind[w]: dynamic type of widget w: "RadioButton", "Button"
                   \* (a Button that is no RadioButton) or "Widget"
    parentOf,      \* parentOf[w]: the parent widget (a container id)
    mButtonGroup,  \* mButtonGroup[w]: Button::mButtonGroup, a sequence of buttons
    mFlags,        \* mFlags[w]: Button::mFlags, a set of flag names
    mPushed,       \* mPushed[w]: Button::mPushed
    mIcon,         \* mIcon[w]: Button::mIcon, the icon displayed
    mOtherIcon,    \* mOtherIcon[w]: RadioButton::mOtherIcon
    ctorIcons,     \* <<checkedIcon, uncheckdIcon>> given to the constructors
    lastToggle,    \* history: the last toggle() call and the state it began in
    \* ---- build and environment ----
    platform,      \* "linux_win": _WIN32 or __linux__ is defined; "apple":
                   \* __APPLE__ is defined; "other": none of them
    constructing,  \* the Screen(size, ...) constructor that is inside its
                   \* glfwPollEvents() call (line 155), or NotConstructing
    gladBuild,     \* NANOGUI_GLAD is defined
    hostScale,     \* the desktop's scaling factor (hi-dpi)
    \* ---- Screen objects ----
    alive,         \* alive[s]: a Screen object exists in slot s
    mGLFWWindow,   \* 0 is nullptr
    mShutdownGLFWOnDestruct,
    mFullscreen,
    mCursors,      \* mCursors[s]: CursorCount cursor handles, 0 is nullptr
    mCaption,
    mVisible,
    mSize,
    mFBSize,
    mPixelRatio,   \* a quotient [num, den]
    \* ---- process-wide state ----
    nanoguiScreens,   \* __nanogui_screens: window handle -> Screen, 0 is "no entry",
                      \* -s is a pointer to the destroyed Screen of slot s
    gladInitialized,
    aborted,          \* abort() was called
    \* ---- the host (GLFW / GL) ----
    gladLoaded,    \* gladLoadGLLoader has succeeded once
    winLive,       \* winLive[w]: the window behind handle w exists
    winSize,       \* glfwGetWindowSize
    winFB,         \* glfwGetFramebufferSize
    winVisible,    \* glfwGetWindowAttrib(GLFW_VISIBLE)
    winTitle,
    winCallbacks,  \* the constructor's input callbacks are installed on w
    currentContext,\* the window whose GL context is current, 0 is none
    cursorLive,    \* the cursor handles that exist
    \* ---- history ----
    cursorMadeBy,  \* cursorMadeBy[c]: the Screen whose initialize() created the
                   \* existing cursor c, 0 when c does not exist
    cursorDestroyedTwice, \* glfwDestroyCursor was called on a cursor that no longer exists
    ctorWindow,    \* ctorWindow[s]: the window s's constructor created, 0 is none
    op,            \* the last operation, its arguments and the state it began in
    calls,         \* the host calls and virtual calls the last operation made
    nShowHide,     \* glfwShowWindow / glfwHideWindow calls so far
    nVisChanges    \* changes of a Screen's mVisible by setVisible so far

radioVars == <<kind, parentOf, mButtonGroup, mFlags, mPushed, mIcon,
               mOtherIcon, ctorIcons, lastToggle>>

screenVars == <<platform, constructing, gladBuild, hostScale, alive, mGLFWWindow,
                mShutdownGLFWOnDestruct, mFullscreen, mCursors, mCaption, mVisible,
                mSize, mFBSize, mPixelRatio, nanoguiScreens, gladInitialized,
                aborted, gladLoaded, winLive, winSize, winFB, winVisible, winTitle,
                winCallbacks, currentContext, cursorLive, cursorMadeBy,
                cursorDestroyedTwice, ctorWindow, op, calls, nShowHide,
                nVisChanges>>

vars == <<radioVars, screenVars>>

---------------------------------------------------------------------------
(***************************************************************************)
(* Values and initial states shared by the specifications.                 *)
(***************************************************************************)
Widgets == 1 .. NumWidgets
Screens == 1 .. NumScreens
Windows == 1 .. NumWindows
CursorIds == 1 .. (CursorCount * MaxCursorSets)

Range(f) == {f[i] : i \in DOMAIN f}

\* Vector2i(0, 0)
Zero2 == <<0, 0>>

\* the pixel ratio 1
One == [num |-> 1, den |-> 1]

\* memset(mCursors, 0, ...)
NoCursors == [i \in 1 .. CursorCount |-> 0]

\* no constructor is in progress
NotConstructing ==
    [s |-> 0, w |-> 0, size |-> Zero2, caption |-> "", fullscreen |-> FALSE]

\* storage that holds in mFBSize and mPixelRatio what a constructed widget
\* of size (0, 0) on a display of ratio 1 holds
NoJunk == [fb |-> Zero2, ratio |-> One]

\* storage the system hands out zero-filled: mPixelRatio reads 0.0
ZeroFilled == [fb |-> Zero2, ratio |-> [num |-> 0, den |-> 1]]

\* what the storage of a Screen can hold in mFBSize and mPixelRatio before
\* any code has written them: the initializer lists of lines 85-88 and
\* 94-97 name neither member
StorageJunk ==
    {ZeroFilled, NoJunk, [fb |-> <<6, 4>>, ratio |-> [num |-> 3, den |-> 2]]}

\* before any Screen is constructed and any window created: the registry is
\* empty, gladInitialized is false; junk is what fresh storage holds
NoScreens(plat, glad, scale, junk) ==
    /\ platform = plat
    /\ constructing = NotConstructing
    /\ gladBuild = glad
    /\ hostScale = scale
    /\ alive = [s \in Screens |-> FALSE]
    /\ mGLFWWindow = [s \in Screens |-> 0]
    /\ mShutdownGLFWOnDestruct = [s \in Screens |-> FALSE]
    /\ mFullscreen = [s \in Screens |-> FALSE]
    /\ mCursors = [s \in Screens |-> NoCursors]
    /\ mCaption = [s \in Screens |-> ""]
    /\ mVisible = [s \in Screens |-> TRUE]
    /\ mSize = [s \in Screens |-> Zero2]
    /\ mFBSize = [s \in Screens |-> junk.fb]
    /\ mPixelRatio = [s \in Screens |-> junk.ratio]
    /\ nanoguiScreens = [w \in Windows |-> 0]
    /\ gladInitialized = FALSE
    /\ aborted = FALSE
    /\ gladLoaded = FALSE
    /\ winLive = [w \in Windows |-> FALSE]
    /\ winSize = [w \in Windows |-> Zero2]
    /\ winFB = [w \in Windows |-> Zero2]
    /\ winVisible = [w \in Windows |-> FALSE]
    /\ winTitle = [w \in Windows |-> ""]
    /\ winCallbacks = [w \in Windows |-> FALSE]
    /\ currentContext = 0
    /\ cursorLive = {}
    /\ cursorMadeBy = [c \in CursorIds |-> 0]
    /\ cursorDestroyedTwice = FALSE
    /\ ctorWindow = [s \in Screens |-> 0]
    /\ op = [name |-> "none", s |-> 0, w |-> 0, arg |-> 0, ret |-> 0, pre |-> 0]
    /\ calls = <<>>
    /\ nShowHide = 0
    /\ nVisChanges = 0

\* the application is running and between two calls: the process has not
\* died and no constructor is in the middle of its glfwPollEvents()
Idle == ~aborted /\ constructing.s = 0

\* a widget tree without radio buttons
NoRadioButtons ==
    /\ kind = [w \in Widgets |-> "Widget"]
    /\ parentOf = [w \in Widgets |-> 1]
    /\ mButtonGroup = [w \in Widgets |-> <<>>]
    /\ mFlags = [w \in Widgets |-> {}]
    /\ mPushed = [w \in Widgets |-> FALSE]
    /\ mIcon = [w \in Widgets |-> 0]
    /\ mOtherIcon = [w \in Widgets |-> 0]
    /\ ctorIcons = <<0, 0>>
    /\ lastToggle = [b |-> 0, pushed |-> mPushed, icon |-> mIcon, other |-> mOtherIcon]

---------------------------------------------------------------------------
(***************************************************************************)
(* Radio buttons.                                                          *)
(***************************************************************************)
\* the containers a widget can be a child of
Parents == {1, 2}

\* the explicit groups a button can be put in; 0 is "no explicit group"
GroupIds == {0, 1, 2}

\* caller-supplied <<checkedIcon, uncheckdIcon>> pairs: the defaults and a custom pair
IconArgs == {<<ENTYPO_ICON_CHECK, 0>>, <<1, 2>>}

RECURSIVE SortedSeq(_)
\* the elements of a finite set of numbers in increasing order
SortedSeq(S) ==
    IF S = {} THEN <<>>
    ELSE LET m == CHOOSE x \in S : \A y \in S : x <= y
         IN  <<m>> \o SortedSeq(S \ {m})

\* parent()->children(): the children of container p, in insertion order
Children(p) == SortedSeq({w \in Widgets : parentOf[w] = p})

\* dynamic_cast<Button *>(widget) succeeds: RadioButton derives from Button
IsButton(w) == kind[w] \in {"Button", "RadioButton"}

\* dynamic_cast<RadioButton *>(b) succeeds
IsRadioButton(w) == kind[w] = "RadioButton"

\* a faulty variant of the swap: the icons stay as they are
KeepIcons(ic, rb) == ic

\* std::swap(rb->mIcon, rb->mOtherIcon) on the icon state ic = [icon, other]
SwapIcons(ic, rb) ==
    [icon  |-> [ic.icon  EXCEPT ![rb] = ic.other[rb]],
     other |-> [ic.other EXCEPT ![rb] = ic.icon[rb]]]

RECURSIVE SwapPushedPeers(_, _, _, _)
\* the loops of toggle(): every entry b of list that is a Button other than
\* this, carries the RadioButton flag and is pushed (in pushed) gets its two
\* icons swapped when it is a RadioButton
SwapPushedPeers(list, this, pushed, ic) ==
    IF list = <<>> THEN ic
    ELSE LET b == Head(list)
             hit == /\ IsButton(b)
                    /\ b # this
                    /\ "RadioButton" \in mFlags[b]
                    /\ pushed[b]
             ic1 == IF hit /\ IsRadioButton(b) THEN SwapIcons(ic, b) ELSE ic
         IN  SwapPushedPeers(Tail(list), this, pushed, ic1)

\* a faulty variant of the choice of list: the siblings are scanned even when the
\* button has an explicit group
ScannedListWithSiblings(this) ==
    mButtonGroup[this] \o Children(parentOf[this])

\* the list toggle() scans: the siblings when mButtonGroup is empty, else mButtonGroup
ScannedList(this) ==
    IF mButtonGroup[this] = <<>> THEN Children(parentOf[this])
    ELSE mButtonGroup[this]

\* a faulty variant of the order of toggle(): the peers are scanned without this
\* button's own swap following
RadioToggleIconsNoOwnSwap(this) ==
    SwapPushedPeers(IF mButtonGroup[this] = <<>> THEN Children(parentOf[this])
                    ELSE mButtonGroup[this],
                    this, mPushed, [icon |-> mIcon, other |-> mOtherIcon])

\* the icons after lines 30-48 of toggle(): the peers' swaps, then this button's own
RadioToggleIcons(this) ==
    SwapIcons(SwapPushedPeers(ScannedList(this), this, mPushed,
                              [icon |-> mIcon, other |-> mOtherIcon]),
              this)

\* Button::toggle(), the base toggle behaviour: it flips this button's
\* pushed state
ButtonToggle(this, pushed) == [pushed EXCEPT ![this] = ~pushed[this]]

\* line 49 of toggle(): Button::toggle() run on the pushed states
RadioTogglePushed(this) == ButtonToggle(this, mPushed)

\* the members of explicit group g, in the order they were listed
GroupList(grp, g) == SortedSeq({w \in Widgets : grp[w] = g})

\* the flags a Button that is no RadioButton is given with setFlags
PlainButtonFlags == {{"NormalButton"}, {"RadioButton"}}

\* RadioButton::RadioButton for the radio buttons (flags set at line 25,
\* unpushed, showing uncheckdIcon), Button for the plain buttons (any of
\* PlainButtonFlags, pushed or not, no icon), Widget for the rest, then
\* setButtonGroup for the buttons of an explicit group
InitRadio ==
    /\ kind \in [Widgets -> {"RadioButton", "Button", "Widget"}]
    /\ parentOf \in [Widgets -> Parents]
    /\ ctorIcons \in IconArgs
    /\ \E grp \in [Widgets -> GroupIds] :
          /\ \A w \in Widgets : kind[w] = "Widget" => grp[w] = 0
          /\ mButtonGroup = [w \in Widgets |->
                               IF grp[w] = 0 THEN <<>> ELSE GroupList(grp, grp[w])]
    /\ mFlags \in [Widgets -> PlainButtonFlags \cup {{}, {"RadioButton", "ToggleButton"}}]
    /\ \A w \in Widgets :
          /\ kind[w] = "RadioButton" => mFlags[w] = {"RadioButton", "ToggleButton"}
          /\ kind[w] = "Button" => mFlags[w] \in PlainButtonFlags
          /\ kind[w] = "Widget" => mFlags[w] = {}
    /\ mPushed \in [Widgets -> BOOLEAN]
    /\ \A w \in Widgets : mPushed[w] => kind[w] = "Button"
    /\ mIcon = [w \in Widgets |-> IF kind[w] = "RadioButton" THEN ctorIcons[2] ELSE 0]
    /\ mOtherIcon = [w \in Widgets |-> IF kind[w] = "RadioButton" THEN ctorIcons[1] ELSE 0]
    /\ lastToggle = [b |-> 0, pushed |-> mPushed, icon |-> mIcon, other |-> mOtherIcon]
    /\ NoScreens("other", FALSE, 1, NoJunk)

\* RadioButton::toggle() on button this
RadioButtonToggle(this) ==
    /\ IsRadioButton(this)
    /\ LET ic == RadioToggleIcons(this)
       IN  /\ mIcon' = ic.icon
           /\ mOtherIcon' = ic.other
    /\ mPushed' = RadioTogglePushed(this)
    /\ lastToggle' = [b |-> this, pushed |-> mPushed, icon |-> mIcon,
                      other |-> mOtherIcon]
    /\ UNCHANGED <<kind, parentOf, mButtonGroup, mFlags, ctorIcons>>
    /\ UNCHANGED screenVars

NextRadio == \E this \in Widgets : RadioButtonToggle(this)

SpecRadio == InitRadio /\ [][NextRadio]_vars

---------------------------------------------------------------------------
(***************************************************************************)
(* Screen: construction, initialize and destruction.                       *)
(***************************************************************************)
\* the sizes a caller asks a new window to have
CtorSizes == {<<2, 2>>, <<2, 4>>}

\* the captions a caller uses
Captions == {"a", "b"}

\* the primary monitor's video mode (a full-screen window gets this size)
VideoMode == <<4, 4>>

\* Vector2i * float, converted back to int
ScaleBy(v, r) == <<(v[1] * r.num) \div r.den, (v[2] * r.num) \div r.den>>

\* Vector2i / float, converted back to int
DivideBy(v, r) == <<(v[1] * r.den) \div r.num, (v[2] * r.den) \div r.num>>

\* get_pixel_ratio(w) when the host reports window sizes size0 and
\* framebuffer sizes fb0: the desktop's factor where the platform has an API
\* for it, else framebuffer width / window width
GetPixelRatio(w, size0, fb0) ==
    IF platform # "linux_win" THEN [num |-> fb0[w][1], den |-> size0[w][1]]
    ELSE [num |-> hostScale, den |-> 1]

\* the framebuffer the host gives a window of this size
HostFramebuffer(size) ==
    IF platform # "linux_win" THEN <<size[1] * hostScale, size[2] * hostScale>>
    ELSE size

\* what the destructor of Screen s finds: whether it owns its window and
\* whether that window still exists
PreDestroy(s) ==
    LET w == mGLFWWindow[s]
    IN  [owned |-> (w # 0 /\ mShutdownGLFWOnDestruct[s]),
         winLive |-> IF w = 0 THEN FALSE ELSE winLive[w]]

\* the handles glfwCreateStandardCursor returns for one initialize()
NewCursors == SubSeq(SortedSeq(CursorIds \ cursorLive), 1, CursorCount)

\* the host can still create CursorCount cursors
CursorsLeft == Cardinality(CursorIds \ cursorLive) >= CursorCount

\* lines 253-263 of initialize(): the window, the ownership flag, the sizes
\* and the pixel ratio are stored; with a pixel ratio other than 1 a window
\* that is not full-screen is resized (Windows and Linux), and the host
\* gives the resized window its framebuffer; the stored sizes are the ones
\* read before the resize
InitializeHead(s, w, shutdown, fullscreen, size0, fb0) ==
    LET ratio == GetPixelRatio(w, size0, fb0)
        resize == platform = "linux_win" /\ ratio # One /\ ~fullscreen
    IN  /\ mGLFWWindow' = [mGLFWWindow EXCEPT ![s] = w]
        /\ mShutdownGLFWOnDestruct' = [mShutdownGLFWOnDestruct EXCEPT ![s] = shutdown]
        /\ mSize' = [mSize EXCEPT ![s] = size0[w]]
        /\ mFBSize' = [mFBSize EXCEPT ![s] = fb0[w]]
        /\ mPixelRatio' = [mPixelRatio EXCEPT ![s] = ratio]
        /\ winSize' = IF resize THEN [size0 EXCEPT ![w] = ScaleBy(size0[w], ratio)]
                      ELSE size0
        /\ winFB' = IF resize
                    THEN [fb0 EXCEPT ![w] = HostFramebuffer(ScaleBy(size0[w], ratio))]
                    ELSE fb0

\* line 277 of initialize(): __nanogui_screens[mGLFWWindow] = this
Register(s, w) == [nanoguiScreens EXCEPT ![w] = s]

\* lines 276-280 of initialize(): the visibility is read from the window, the
\* Screen is registered and the cursors are created
InitializeTail(s, w, vis0, madeBy0) ==
    /\ mVisible' = [mVisible EXCEPT ![s] = vis0[w]]
    /\ nanoguiScreens' = Register(s, w)
    /\ mCursors' = [mCursors EXCEPT ![s] = NewCursors]
    /\ cursorLive' = cursorLive \cup Range(NewCursors)
    /\ cursorMadeBy' = [c \in CursorIds |->
                          IF c \in Range(NewCursors) THEN s ELSE madeBy0[c]]
    /\ UNCHANGED cursorDestroyedTwice

\* the history of cursors forgets an earlier Screen object of slot s
ForgetSlot(s) == [c \in CursorIds |-> IF cursorMadeBy[c] = s THEN 0 ELSE cursorMadeBy[c]]

\* ScreenCore(), the base class constructor both initializer lists call
\* first: what mFBSize and mPixelRatio of the object in storage s hold after
\* it. It either leaves them as the storage holds them or sets a
\* framebuffer size of (0, 0) and a ratio of 1.
ScreenCore(s) == {[fb |-> mFBSize[s], ratio |-> mPixelRatio[s]], NoJunk}

\* the members both constructors initialize before their bodies run (lines
\* 86-87 and 94-96): ScreenCore() gives a visible widget of size (0, 0),
\* mGLFWWindow is nullptr, the caption and the full-screen flag are the
\* arguments (an empty caption and false for Screen()), the Screen does not
\* own a window, mCursors is zeroed. mFBSize and mPixelRatio are left to
\* ScreenCore().
InitializerList(s, caption, fullscreen) ==
    /\ mGLFWWindow' = [mGLFWWindow EXCEPT ![s] = 0]
    /\ mCaption' = [mCaption EXCEPT ![s] = caption]
    /\ mShutdownGLFWOnDestruct' = [mShutdownGLFWOnDestruct EXCEPT ![s] = FALSE]
    /\ mFullscreen' = [mFullscreen EXCEPT ![s] = fullscreen]
    /\ mCursors' = [mCursors EXCEPT ![s] = NoCursors]
    /\ mVisible' = [mVisible EXCEPT ![s] = TRUE]
    /\ mSize' = [mSize EXCEPT ![s] = Zero2]
    /\ \E core \in ScreenCore(s) :
           /\ mFBSize' = [mFBSize EXCEPT ![s] = core.fb]
           /\ mPixelRatio' = [mPixelRatio EXCEPT ![s] = core.ratio]

\* Screen::Screen(): no window, nothing registered
DefaultConstruct(s) ==
    /\ Idle
    /\ ~alive[s]
    /\ alive' = [alive EXCEPT ![s] = TRUE]
    /\ InitializerList(s, "", FALSE)
    /\ cursorMadeBy' = ForgetSlot(s)
    /\ op' = [name |-> "Screen()", s |-> s, w |-> 0, arg |-> 0, ret |-> "ok",
              pre |-> 0]
    /\ calls' = <<>>
    /\ UNCHANGED <<platform, constructing, gladBuild, hostScale, nanoguiScreens,
                   gladInitialized, aborted, gladLoaded, winLive, winSize, winFB,
                   winVisible, winTitle, winCallbacks, currentContext, cursorLive,
                   cursorDestroyedTwice, ctorWindow, nShowHide, nVisChanges>>
    /\ UNCHANGED radioVars

\* Screen::Screen(size, caption, ...): glfwCreateWindow fails and the
\* constructor throws (line 126); no Screen object exists afterwards, the
\* storage keeps what the constructor wrote
ConstructNoWindow(s, size, caption, fullscreen) ==
    /\ Idle
    /\ ~alive[s]
    /\ InitializerList(s, caption, fullscreen)
    /\ op' = [name |-> "Screen(size)", s |-> s, w |-> 0,
              arg |-> <<size, caption, fullscreen>>, ret |-> "throw context",
              pre |-> 0]
    /\ calls' = <<>>
    /\ UNCHANGED <<platform, constructing, gladBuild, hostScale, alive, nanoguiScreens,
                   gladInitialized, aborted, gladLoaded, winLive, winSize, winFB,
                   winVisible, winTitle, winCallbacks, currentContext, cursorLive,
                   cursorMadeBy, cursorDestroyedTwice, ctorWindow, nShowHide,
                   nVisChanges>>
    /\ UNCHANGED radioVars

\* a faulty variant of the constructor's order: the input callbacks are
\* installed before the GL loader is tried
CallbacksBeforeLoader(w) == [winCallbacks EXCEPT ![w] = TRUE]

\* the callbacks of the new window w when the constructor throws at line 136:
\* none, lines 158-247 are not reached
CallbacksAtThrow(w) == [winCallbacks EXCEPT ![w] = FALSE]

\* the GL loader was tried and failed earlier: gladInitialized is set (line
\* 134 or 267, before the loader runs), the GL entry points are not loaded
LoaderSkippedUnloaded == gladBuild /\ gladInitialized /\ ~gladLoaded

\* ScreenCore::init(size, ratio), called at line 274: if it sets the
\* rendering context up through GL, the process dies in it when the entry
\* points were never loaded; if it makes no GL call, it returns
InitMayDie == LoaderSkippedUnloaded

\* lines 132-139 and 265-272: gladLoaded after the block, in which
\* gladLoadGLLoader runs when gladInitialized is false and loads the entry
\* points or not (loads)
LoadedAfter(loads) == gladLoaded \/ (gladBuild /\ ~gladInitialized /\ loads)

\* lines 115-130 of the constructor: the host creates the window w hidden,
\* full-screen windows with the video mode's size, and its context is made
\* current; callbacks is what the window's callbacks are afterwards
CreateWindow(w, size, caption, fullscreen, callbacks) ==
    /\ winLive' = [winLive EXCEPT ![w] = TRUE]
    /\ winSize' = [winSize EXCEPT ![w] = IF fullscreen THEN VideoMode ELSE size]
    /\ winFB' = [winFB EXCEPT ![w] = HostFramebuffer(winSize'[w])]
    /\ winVisible' = [winVisible EXCEPT ![w] = FALSE]
    /\ winTitle' = [winTitle EXCEPT ![w] = caption]
    /\ winCallbacks' = callbacks
    /\ currentContext' = w

\* the members the constructor has written when it reaches line 143: the
\* initializer list, then the window (lines 118-121), the framebuffer size
\* read from the host (141) and the requested size (142)
WrittenBeforeGL(s, w, size, caption, fullscreen, fb) ==
    /\ mGLFWWindow' = [mGLFWWindow EXCEPT ![s] = w]
    /\ mCaption' = [mCaption EXCEPT ![s] = caption]
    /\ mShutdownGLFWOnDestruct' = [mShutdownGLFWOnDestruct EXCEPT ![s] = FALSE]
    /\ mFullscreen' = [mFullscreen EXCEPT ![s] = fullscreen]
    /\ mCursors' = [mCursors EXCEPT ![s] = NoCursors]
    /\ mVisible' = [mVisible EXCEPT ![s] = TRUE]
    /\ mFBSize' = [mFBSize EXCEPT ![s] = fb]
    /\ mSize' = [mSize EXCEPT ![s] = size]
    /\ \E core \in ScreenCore(s) :
           mPixelRatio' = [mPixelRatio EXCEPT ![s] = core.ratio]

\* Screen::Screen(size, caption, ...): the window w is created and made
\* current, then the GL loader fails to load and the constructor throws
\* (line 136); the window stays, no Screen object exists afterwards, the
\* storage keeps what the constructor wrote
ConstructNoLoader(s, size, caption, fullscreen, w) ==
    /\ Idle
    /\ ~alive[s]
    /\ ~winLive[w]
    /\ gladBuild /\ ~gladInitialized
    /\ gladInitialized' = TRUE
    /\ gladLoaded' = LoadedAfter(FALSE)
    /\ mGLFWWindow' = [mGLFWWindow EXCEPT ![s] = w]
    /\ mCaption' = [mCaption EXCEPT ![s] = caption]
    /\ mShutdownGLFWOnDestruct' = [mShutdownGLFWOnDestruct EXCEPT ![s] = FALSE]
    /\ mFullscreen' = [mFullscreen EXCEPT ![s] = fullscreen]
    /\ mCursors' = [mCursors EXCEPT ![s] = NoCursors]
    /\ mVisible' = [mVisible EXCEPT ![s] = TRUE]
    /\ mSize' = [mSize EXCEPT ![s] = Zero2]
    /\ \E core \in ScreenCore(s) :
           /\ mFBSize' = [mFBSize EXCEPT ![s] = core.fb]
           /\ mPixelRatio' = [mPixelRatio EXCEPT ![s] = core.ratio]
    /\ CreateWindow(w, size, caption, fullscreen, CallbacksAtThrow(w))
    /\ op' = [name |-> "Screen(size)", s |-> s, w |-> w,
              arg |-> <<size, caption, fullscreen>>, ret |-> "throw loader",
              pre |-> 0]
    /\ calls' = <<>>
    /\ UNCHANGED <<platform, constructing, gladBuild, hostScale, alive,
                   nanoguiScreens, aborted, cursorLive, cursorMadeBy, cursorDestroyedTwice,
                   ctorWindow, nShowHide, nVisChanges>>
    /\ UNCHANGED radioVars

\* Screen::Screen(size, caption, ...) succeeding: the window w is created
\* hidden and made current, the GL loader is loaded if this is the first
\* attempt, the input callbacks are installed, and initialize(w, true) runs.
\* On an Apple build this is the run in which glfwPollEvents() (line 155)
\* finds no event to deliver; ConstructBegin and ConstructEnd are the runs
\* in which it delivers some. After an earlier loader failure the GL calls
\* of line 143 on cannot be made (ConstructUnloadedCrash).
ConstructOK(s, size, caption, fullscreen, w) ==
    /\ Idle
    /\ ~alive[s]
    /\ ~winLive[w]
    /\ CursorsLeft
    /\ ~LoaderSkippedUnloaded
    /\ LET size0 == [winSize EXCEPT ![w] = IF fullscreen THEN VideoMode ELSE size]
           fb0 == [winFB EXCEPT ![w] = HostFramebuffer(size0[w])]
           vis0 == [winVisible EXCEPT ![w] = FALSE]
       IN  /\ winVisible' = vis0
           /\ InitializeHead(s, w, TRUE, fullscreen, size0, fb0)
           /\ InitializeTail(s, w, vis0, ForgetSlot(s))
    /\ alive' = [alive EXCEPT ![s] = TRUE]
    /\ mFullscreen' = [mFullscreen EXCEPT ![s] = fullscreen]
    /\ mCaption' = [mCaption EXCEPT ![s] = caption]
    /\ gladInitialized' = (gladInitialized \/ gladBuild)
    /\ gladLoaded' = LoadedAfter(TRUE)
    /\ winLive' = [winLive EXCEPT ![w] = TRUE]
    /\ winTitle' = [winTitle EXCEPT ![w] = caption]
    /\ winCallbacks' = [winCallbacks EXCEPT ![w] = TRUE]
    /\ currentContext' = w
    /\ ctorWindow' = [ctorWindow EXCEPT ![s] = w]
    /\ op' = [name |-> "Screen(size)", s |-> s, w |-> w,
              arg |-> <<size, caption, fullscreen>>, ret |-> "ok", pre |-> 0]
    /\ calls' = <<>>
    /\ UNCHANGED <<platform, constructing, gladBuild, hostScale, aborted, nShowHide, nVisChanges>>
    /\ UNCHANGED radioVars

\* Screen::Screen(size, caption, ...) on an Apple build, lines 90-155: the
\* window w is created hidden and made current, the GL loader is loaded if
\* this is the first attempt, the first frame is cleared and swapped, and
\* the constructor enters glfwPollEvents(). The window has no callbacks yet
\* and the object is not registered; the callbacks of the windows that
\* exist already run before the constructor goes on. The storage of the
\* object holds the window (lines 118-121), the framebuffer size (141) and
\* the requested size (142).
ConstructBegin(s, size, caption, fullscreen, w) ==
    /\ Idle
    /\ platform = "apple"
    /\ ~alive[s]
    /\ ~winLive[w]
    /\ CursorsLeft
    /\ ~LoaderSkippedUnloaded
    /\ constructing' = [s |-> s, w |-> w, size |-> size, caption |-> caption,
                        fullscreen |-> fullscreen]
    /\ gladInitialized' = (gladInitialized \/ gladBuild)
    /\ gladLoaded' = LoadedAfter(TRUE)
    /\ CreateWindow(w, size, caption, fullscreen, [winCallbacks EXCEPT ![w] = FALSE])
    /\ WrittenBeforeGL(s, w, size, caption, fullscreen, winFB'[w])
    /\ op' = [name |-> "Screen(size)", s |-> s, w |-> w,
              arg |-> <<size, caption, fullscreen>>, ret |-> "polling", pre |-> 0]
    /\ calls' = <<>>
    /\ UNCHANGED <<platform, gladBuild, hostScale, alive, nanoguiScreens,
                   aborted, cursorLive, cursorMadeBy, cursorDestroyedTwice,
                   ctorWindow, nShowHide, nVisChanges>>
    /\ UNCHANGED radioVars

\* Screen::Screen(size, caption, ...) on an Apple build, lines 158-249:
\* glfwPollEvents() has returned, the input callbacks are installed on the
\* new window and initialize(w, true) runs
ConstructEnd ==
    /\ ~aborted
    /\ constructing.s # 0
    /\ LET s == constructing.s
           w == constructing.w
       IN  /\ InitializeHead(s, w, TRUE, constructing.fullscreen, winSize, winFB)
           /\ InitializeTail(s, w, winVisible, ForgetSlot(s))
           /\ alive' = [alive EXCEPT ![s] = TRUE]
           /\ mFullscreen' = [mFullscreen EXCEPT ![s] = constructing.fullscreen]
           /\ mCaption' = [mCaption EXCEPT ![s] = constructing.caption]
           /\ winCallbacks' = [winCallbacks EXCEPT ![w] = TRUE]
           /\ ctorWindow' = [ctorWindow EXCEPT ![s] = w]
           /\ op' = [name |-> "Screen(size)", s |-> s, w |-> w,
                     arg |-> <<constructing.size, constructing.caption,
                               constructing.fullscreen>>,
                     ret |-> "ok", pre |-> 0]
    /\ constructing' = NotConstructing
    /\ calls' = <<>>
    /\ UNCHANGED <<platform, gladBuild, hostScale, aborted, gladInitialized,
                   gladLoaded, winLive, winVisible, winTitle, currentContext,
                   nShowHide, nVisChanges>>
    /\ UNCHANGED radioVars

\* Screen::initialize(w, shutdown) on an existing Screen, succeeding; after
\* an earlier loader failure the loader block is skipped (line 266) and
\* nothing between lines 253 and 280 but init() can stop the call
InitializeOK(s, w, shutdown) ==
    /\ Idle
    /\ alive[s]
    /\ winLive[w]
    /\ CursorsLeft
    /\ InitializeHead(s, w, shutdown, mFullscreen[s], winSize, winFB)
    /\ InitializeTail(s, w, winVisible, cursorMadeBy)
    /\ gladInitialized' = (gladInitialized \/ gladBuild)
    /\ gladLoaded' = LoadedAfter(TRUE)
    /\ op' = [name |-> "initialize", s |-> s, w |-> w, arg |-> shutdown,
              ret |-> "ok", pre |-> 0]
    /\ calls' = <<>>
    /\ UNCHANGED <<platform, constructing, gladBuild, hostScale, alive, mFullscreen, mCaption,
                   aborted, winLive, winVisible, winTitle, winCallbacks,
                   currentContext, ctorWindow, nShowHide, nVisChanges>>
    /\ UNCHANGED radioVars

\* Screen::initialize(w, shutdown) throwing because the GL loader fails to
\* load: the window and the sizes are stored, the Screen is not registered
InitializeNoLoader(s, w, shutdown) ==
    /\ Idle
    /\ alive[s]
    /\ winLive[w]
    /\ gladBuild /\ ~gladInitialized
    /\ InitializeHead(s, w, shutdown, mFullscreen[s], winSize, winFB)
    /\ gladInitialized' = TRUE
    /\ gladLoaded' = LoadedAfter(FALSE)
    /\ op' = [name |-> "initialize", s |-> s, w |-> w, arg |-> shutdown,
              ret |-> "throw loader", pre |-> 0]
    /\ calls' = <<>>
    /\ UNCHANGED <<platform, constructing, gladBuild, hostScale, alive, mFullscreen, mCursors,
                   mCaption, mVisible, nanoguiScreens, aborted, winLive,
                   winVisible, winTitle, winCallbacks, currentContext,
                   cursorLive, cursorMadeBy, cursorDestroyedTwice, ctorWindow, nShowHide,
                   nVisChanges>>
    /\ UNCHANGED radioVars

\* Screen::initialize(w, shutdown) after an earlier loader failure: the
\* window and the sizes are stored (lines 253-263), the loader is skipped
\* and init() (line 274) makes a GL call, in which the process dies
InitializeUnloadedCrash(s, w, shutdown) ==
    /\ Idle
    /\ alive[s]
    /\ winLive[w]
    /\ InitMayDie
    /\ InitializeHead(s, w, shutdown, mFullscreen[s], winSize, winFB)
    /\ aborted' = TRUE
    /\ op' = [name |-> "initialize", s |-> s, w |-> w, arg |-> shutdown,
              ret |-> "crash", pre |-> 0]
    /\ calls' = <<>>
    /\ UNCHANGED <<platform, constructing, gladBuild, hostScale, alive, mFullscreen,
                   mCursors, mCaption, mVisible, nanoguiScreens, gladInitialized,
                   gladLoaded, winLive, winVisible, winTitle, winCallbacks,
                   currentContext, cursorLive, cursorMadeBy, cursorDestroyedTwice,
                   ctorWindow, nShowHide, nVisChanges>>
    /\ UNCHANGED radioVars

\* Screen::Screen(size, caption, ...) after an earlier loader failure: the
\* loader is skipped (line 133) and glViewport (line 143) is called through
\* an entry point that was never loaded: the process dies there, after the
\* window was created and lines 141-142 stored the sizes
ConstructUnloadedCrash(s, size, caption, fullscreen, w) ==
    /\ Idle
    /\ ~alive[s]
    /\ ~winLive[w]
    /\ LoaderSkippedUnloaded
    /\ aborted' = TRUE
    /\ CreateWindow(w, size, caption, fullscreen, CallbacksAtThrow(w))
    /\ WrittenBeforeGL(s, w, size, caption, fullscreen, winFB'[w])
    /\ op' = [name |-> "Screen(size)", s |-> s, w |-> w,
              arg |-> <<size, caption, fullscreen>>, ret |-> "crash", pre |-> 0]
    /\ calls' = <<>>
    /\ UNCHANGED <<platform, constructing, gladBuild, hostScale, alive, nanoguiScreens,
                   gladInitialized, gladLoaded, cursorLive, cursorMadeBy,
                   cursorDestroyedTwice, ctorWindow, nShowHide, nVisChanges>>
    /\ UNCHANGED radioVars

\* the registry after ~Screen of s, whose mGLFWWindow is w: the entry of w is
\* erased (line 284); any other entry that points to s stays and now points
\* to a destroyed object, written -s
Unregister(s, w) ==
    [v \in Windows |-> IF v = w THEN 0
                       ELSE IF nanoguiScreens[v] = s THEN -s
                       ELSE nanoguiScreens[v]]

\* the cursors the destructor destroys: the non-null entries of mCursors
HeldCursors(s) == {c \in Range(mCursors[s]) : c # 0}

\* the destructor's host calls: each held cursor, then the window if owned
DestroyCalls(s) ==
    LET held == SelectSeq(mCursors[s], LAMBDA c : c # 0)
        w == mGLFWWindow[s]
    IN  [i \in 1 .. Len(held) |-> <<"glfwDestroyCursor", held[i]>>]
        \o (IF w # 0 /\ mShutdownGLFWOnDestruct[s]
            THEN << <<"glfwDestroyWindow", w>> >> ELSE <<>>)

\* Screen::~Screen(): the entry of the Screen's window is erased, the held
\* cursors are destroyed, and the window is destroyed when the Screen owns
\* it. Destroying a window that no longer exists is undefined: the process
\* may crash or go on. The destructor writes no member: the storage keeps
\* what the object held.
Destroy(s, crash) ==
    /\ Idle
    /\ alive[s]
    /\ LET w == mGLFWWindow[s]
           owned == w # 0 /\ mShutdownGLFWOnDestruct[s]
       IN  /\ nanoguiScreens' = Unregister(s, w)
           /\ IF owned /\ winLive[w]
              THEN /\ winLive' = [winLive EXCEPT ![w] = FALSE]
                   /\ winCallbacks' = [winCallbacks EXCEPT ![w] = FALSE]
                   /\ currentContext' = IF currentContext = w THEN 0
                                        ELSE currentContext
                   /\ crash = FALSE
                   /\ aborted' = FALSE
              ELSE /\ UNCHANGED <<winLive, winCallbacks, currentContext>>
                   /\ IF owned THEN aborted' = crash
                      ELSE crash = FALSE /\ aborted' = FALSE
    /\ cursorLive' = cursorLive \ HeldCursors(s)
    /\ cursorMadeBy' = [c \in CursorIds |->
                          IF c \in HeldCursors(s) THEN 0 ELSE cursorMadeBy[c]]
    /\ cursorDestroyedTwice' = (cursorDestroyedTwice \/ ~(HeldCursors(s) \subseteq cursorLive))
    /\ alive' = [alive EXCEPT ![s] = FALSE]
    /\ ctorWindow' = [ctorWindow EXCEPT ![s] = 0]
    /\ op' = [name |-> "~Screen", s |-> s, w |-> mGLFWWindow[s], arg |-> 0,
              ret |-> "ok", pre |-> PreDestroy(s)]
    /\ calls' = DestroyCalls(s)
    /\ UNCHANGED <<platform, constructing, gladBuild, hostScale, mGLFWWindow,
                   mShutdownGLFWOnDestruct, mFullscreen, mCursors, mCaption,
                   mVisible, mSize, mFBSize, mPixelRatio,
                   gladInitialized, gladLoaded,
                   winSize, winFB, winVisible, winTitle, nShowHide, nVisChanges>>
    /\ UNCHANGED radioVars

\* the application creates a window of its own (to hand to initialize)
\* and makes its context current
HostCreateWindow(w, visible) ==
    /\ Idle
    /\ ~winLive[w]
    /\ winLive' = [winLive EXCEPT ![w] = TRUE]
    /\ winSize' = [winSize EXCEPT ![w] = <<2, 2>>]
    /\ winFB' = [winFB EXCEPT ![w] = HostFramebuffer(<<2, 2>>)]
    /\ winVisible' = [winVisible EXCEPT ![w] = visible]
    /\ winTitle' = [winTitle EXCEPT ![w] = ""]
    /\ winCallbacks' = [winCallbacks EXCEPT ![w] = FALSE]
    /\ currentContext' = w
    /\ op' = [name |-> "glfwCreateWindow", s |-> 0, w |-> w, arg |-> visible,
              ret |-> "ok", pre |-> 0]
    /\ calls' = <<>>
    /\ UNCHANGED <<platform, constructing, gladBuild, hostScale, alive, mGLFWWindow,
                   mShutdownGLFWOnDestruct, mFullscreen, mCursors, mCaption,
                   mVisible, mSize, mFBSize, mPixelRatio, nanoguiScreens,
                   gladInitialized, aborted, gladLoaded, cursorLive, cursorMadeBy,
                   cursorDestroyedTwice, ctorWindow, nShowHide, nVisChanges>>
    /\ UNCHANGED radioVars

\* window handles are interchangeable: the host hands out the lowest free
\* handle (a handle is handed out again once its window is destroyed)
FreeHandle(w) == ~winLive[w] /\ \A v \in Windows : v < w => winLive[v]

\* a build whose constructor does not poll (__APPLE__ is not defined), with
\* and without GLAD, on a desktop that does not scale
InitScreens ==
    /\ \E glad \in BOOLEAN, junk \in StorageJunk : NoScreens("other", glad, 1, junk)
    /\ NoRadioButtons

---------------------------------------------------------------------------
(***************************************************************************)
(* Screen: the setters, drawAll and resizeCallbackEvent.                   *)
(***************************************************************************)
\* what the host reports as <<window size, framebuffer size>>: a minimized
\* window, a window whose framebuffer is gone, a window of no extent, and
\* ordinary windows
HostReports ==
    {<<Zero2, Zero2>>, <<<<2, 2>>, Zero2>>, <<Zero2, <<2, 2>>>>}
    \cup {<<size, HostFramebuffer(size)>> : size \in CtorSizes}

\* the Screen has a window to forward to
HasWindow(s) ==
    /\ Idle
    /\ alive[s]
    /\ mGLFWWindow[s] # 0
    /\ winLive[mGLFWWindow[s]]

\* a faulty variant of setVisible: the host is called whatever the stored value
SetVisibleCallsAlways(s, visible) ==
    << <<IF visible THEN "glfwShowWindow" ELSE "glfwHideWindow", mGLFWWindow[s]>> >>

\* the host calls of setVisible(visible): one show or hide when the value changes
SetVisibleCalls(s, visible) ==
    IF mVisible[s] # visible
    THEN << <<IF visible THEN "glfwShowWindow" ELSE "glfwHideWindow", mGLFWWindow[s]>> >>
    ELSE <<>>

\* Screen::setVisible(visible)
SetVisible(s, visible) ==
    /\ HasWindow(s)
    /\ nShowHide < MaxCalls
    /\ calls' = SetVisibleCalls(s, visible)
    /\ mVisible' = [mVisible EXCEPT ![s] = visible]
    /\ winVisible' = IF calls' # <<>>
                     THEN [winVisible EXCEPT ![mGLFWWindow[s]] = visible]
                     ELSE winVisible
    /\ nShowHide' = nShowHide + Len(calls')
    /\ nVisChanges' = nVisChanges + (IF mVisible[s] # mVisible'[s] THEN 1 ELSE 0)
    /\ op' = [name |-> "setVisible", s |-> s, w |-> mGLFWWindow[s], arg |-> visible,
              ret |-> "ok", pre |-> mVisible[s]]
    /\ UNCHANGED <<platform, constructing, gladBuild, hostScale, alive, mGLFWWindow,
                   mShutdownGLFWOnDestruct, mFullscreen, mCursors, mCaption, mSize,
                   mFBSize, mPixelRatio, nanoguiScreens, gladInitialized, aborted,
                   gladLoaded, winLive, winSize, winFB, winTitle, winCallbacks,
                   currentContext, cursorLive, cursorMadeBy, cursorDestroyedTwice,
                   ctorWindow>>
    /\ UNCHANGED radioVars

\* the host calls of setCaption(caption): one set-title when the caption changes
SetCaptionCalls(s, caption) ==
    IF caption # mCaption[s]
    THEN << <<"glfwSetWindowTitle", mGLFWWindow[s], caption>> >>
    ELSE <<>>

\* Screen::setCaption(caption)
SetCaption(s, caption) ==
    /\ HasWindow(s)
    /\ calls' = SetCaptionCalls(s, caption)
    /\ mCaption' = [mCaption EXCEPT ![s] = caption]
    /\ winTitle' = IF calls' # <<>>
                   THEN [winTitle EXCEPT ![mGLFWWindow[s]] = caption]
                   ELSE winTitle
    /\ op' = [name |-> "setCaption", s |-> s, w |-> mGLFWWindow[s], arg |-> caption,
              ret |-> "ok", pre |-> mCaption[s]]
    /\ UNCHANGED <<platform, constructing, gladBuild, hostScale, alive, mGLFWWindow,
                   mShutdownGLFWOnDestruct, mFullscreen, mCursors, mVisible, mSize,
                   mFBSize, mPixelRatio, nanoguiScreens, gladInitialized, aborted,
                   gladLoaded, winLive, winSize, winFB, winVisible, winCallbacks,
                   currentContext, cursorLive, cursorMadeBy, cursorDestroyedTwice,
                   ctorWindow, nShowHide, nVisChanges>>
    /\ UNCHANGED radioVars

\* the size setSize(size) asks the host for: scaled by the pixel ratio on
\* Windows and Linux
RequestedWindowSize(s, size) ==
    IF platform = "linux_win" THEN ScaleBy(size, mPixelRatio[s]) ELSE size

\* a faulty variant of setSize: an unchanged size is not forwarded
SetSizeCallsIfChanged(s, size) ==
    IF size # mSize[s]
    THEN << <<"glfwSetWindowSize", mGLFWWindow[s], RequestedWindowSize(s, size)>> >>
    ELSE <<>>

\* the host calls of setSize(size): always one glfwSetWindowSize
SetSizeCalls(s, size) ==
    << <<"glfwSetWindowSize", mGLFWWindow[s], RequestedWindowSize(s, size)>> >>

\* Screen::setSize(size): Widget::setSize stores the size, the host window is resized
SetSize(s, size) ==
    /\ HasWindow(s)
    /\ calls' = SetSizeCalls(s, size)
    /\ mSize' = [mSize EXCEPT ![s] = size]
    /\ IF calls' # <<>>
       THEN /\ winSize' = [winSize EXCEPT ![mGLFWWindow[s]] = calls'[1][3]]
            /\ winFB' = [winFB EXCEPT ![mGLFWWindow[s]] = HostFramebuffer(calls'[1][3])]
       ELSE UNCHANGED <<winSize, winFB>>
    /\ op' = [name |-> "setSize", s |-> s, w |-> mGLFWWindow[s], arg |-> size,
              ret |-> "ok", pre |-> mSize[s]]
    /\ UNCHANGED <<platform, constructing, gladBuild, hostScale, alive, mGLFWWindow,
                   mShutdownGLFWOnDestruct, mFullscreen, mCursors, mCaption, mVisible,
                   mFBSize, mPixelRatio, nanoguiScreens, gladInitialized, aborted,
                   gladLoaded, winLive, winVisible, winTitle, winCallbacks,
                   currentContext, cursorLive, cursorMadeBy, cursorDestroyedTwice,
                   ctorWindow, nShowHide, nVisChanges>>
    /\ UNCHANGED radioVars

\* the sizes drawAll() stores: read from the host; on Windows and Linux the
\* window size is divided by the pixel ratio and the framebuffer size is
\* that result times the ratio
DrawAllSize(s) ==
    IF platform = "linux_win"
    THEN DivideBy(winSize[mGLFWWindow[s]], mPixelRatio[s])
    ELSE winSize[mGLFWWindow[s]]

DrawAllFBSize(s) ==
    IF platform = "linux_win"
    THEN ScaleBy(DrawAllSize(s), mPixelRatio[s])
    ELSE winFB[mGLFWWindow[s]]

\* the pixel ratio after drawAll(): recomputed where the platform has no API
\* for it, unless the window is zero wide
DrawAllPixelRatio(s) ==
    IF platform # "linux_win" /\ DrawAllSize(s)[1] # 0
    THEN [num |-> DrawAllFBSize(s)[1], den |-> DrawAllSize(s)[1]]
    ELSE mPixelRatio[s]

\* a faulty variant of drawAll: the buffers are swapped before the widgets are drawn
DrawAllCallsSwapEarly(s) ==
    LET w == mGLFWWindow[s]
    IN  << <<"glClearColor", currentContext>>,
           <<"glClear", currentContext>>,
           <<"glfwMakeContextCurrent", w>>,
           <<"glfwGetFramebufferSize", w>>,
           <<"glfwGetWindowSize", w>>,
           <<"glViewport", w, DrawAllFBSize(s)>>,
           <<"drawContents", w>>,
           <<"glfwSwapBuffers", w>> >>
        \o (IF mVisible[s] THEN << <<"drawWidgets", w>> >> ELSE <<>>)

\* the calls of drawAll() in order; a GL call is tagged with the window whose
\* context is current when it is made
DrawAllCalls(s) ==
    LET w == mGLFWWindow[s]
    IN  << <<"glClearColor", currentContext>>,
           <<"glClear", currentContext>>,
           <<"glfwMakeContextCurrent", w>>,
           <<"glfwGetFramebufferSize", w>>,
           <<"glfwGetWindowSize", w>>,
           <<"glViewport", w, DrawAllFBSize(s)>>,
           <<"drawContents", w>> >>
        \o (IF mVisible[s] THEN << <<"drawWidgets", w>> >> ELSE <<>>)
        \o << <<"glfwSwapBuffers", w>> >>

\* Screen::drawAll()
DrawAll(s) ==
    /\ HasWindow(s)
    /\ calls' = DrawAllCalls(s)
    /\ currentContext' = mGLFWWindow[s]
    /\ mSize' = [mSize EXCEPT ![s] = DrawAllSize(s)]
    /\ mFBSize' = [mFBSize EXCEPT ![s] = DrawAllFBSize(s)]
    /\ mPixelRatio' = [mPixelRatio EXCEPT ![s] = DrawAllPixelRatio(s)]
    /\ op' = [name |-> "drawAll", s |-> s, w |-> mGLFWWindow[s], arg |-> 0,
              ret |-> "ok", pre |-> mVisible[s]]
    /\ UNCHANGED <<platform, constructing, gladBuild, hostScale, alive, mGLFWWindow,
                   mShutdownGLFWOnDestruct, mFullscreen, mCursors, mCaption, mVisible,
                   nanoguiScreens, gladInitialized, aborted, gladLoaded, winLive,
                   winSize, winFB, winVisible, winTitle, winCallbacks, cursorLive,
                   cursorMadeBy, cursorDestroyedTwice, ctorWindow, nShowHide,
                   nVisChanges>>
    /\ UNCHANGED radioVars

\* the logical window size resizeCallbackEvent() computes from the host's
ResizeSize(s) ==
    IF platform = "linux_win"
    THEN DivideBy(winSize[mGLFWWindow[s]], mPixelRatio[s])
    ELSE winSize[mGLFWWindow[s]]

\* line 364: the event is dropped when the stored framebuffer size or the
\* computed window size is (0, 0)
ResizeRejected(s) == mFBSize[s] = Zero2 \/ ResizeSize(s) = Zero2

\* what resizeEvent can do when it is called: return true or false, throw
\* an exception derived from std::exception, or throw anything else
ResizeOutcomes == {"true", "false", "throw", "throw other"}

\* a faulty variant of the handler: the exception is swallowed
AbortsNever(outcome) == FALSE

\* lines 369-375: catch (const std::exception &) calls abort()
AbortsOn(outcome) == outcome = "throw"

\* the calls of resizeCallbackEvent(): the two reads, then resizeEvent(mSize)
\* unless the event is rejected
ResizeCalls(s) ==
    << <<"glfwGetFramebufferSize", mGLFWWindow[s]>>,
       <<"glfwGetWindowSize", mGLFWWindow[s]>> >>
    \o (IF ResizeRejected(s) THEN <<>> ELSE << <<"resizeEvent", ResizeSize(s)>> >>)

\* how resizeCallbackEvent() ends: it returns false on a rejected event,
\* returns what resizeEvent returns, aborts the process, or lets an exception
\* that is no std::exception propagate to its caller
ResizeResult(s, outcome) ==
    IF ResizeRejected(s) THEN "false"
    ELSE IF outcome = "throw" THEN "abort"
    ELSE IF outcome = "throw other" THEN "propagate"
    ELSE outcome

\* the state changes of resizeCallbackEvent(); crash: an exception that
\* propagates out of the handler into the host's C code ends the process
\* (otherwise the caller catches it and goes on)
ResizeCore(s, outcome, crash) ==
    /\ crash => (outcome = "throw other" /\ ~ResizeRejected(s))
    /\ IF ResizeRejected(s)
       THEN /\ outcome = "false"
            /\ UNCHANGED <<mFBSize, mSize, aborted>>
       ELSE /\ mFBSize' = [mFBSize EXCEPT ![s] = winFB[mGLFWWindow[s]]]
            /\ mSize' = [mSize EXCEPT ![s] = ResizeSize(s)]
            /\ aborted' = (AbortsOn(outcome) \/ crash)

\* Screen::resizeCallbackEvent(): outcome is what resizeEvent does when it is
\* called
ResizeCallbackEvent(s, outcome, crash) ==
    /\ HasWindow(s)
    /\ ResizeCore(s, outcome, crash)
    /\ calls' = ResizeCalls(s)
    /\ op' = [name |-> "resizeCallbackEvent", s |-> s, w |-> mGLFWWindow[s],
              arg |-> <<winFB[mGLFWWindow[s]], winSize[mGLFWWindow[s]]>>,
              ret |-> ResizeResult(s, outcome),
              pre |-> <<mFBSize[s], mSize[s]>>]
    /\ UNCHANGED <<platform, constructing, gladBuild, hostScale, alive, mGLFWWindow,
                   mShutdownGLFWOnDestruct, mFullscreen, mCursors, mCaption, mVisible,
                   mPixelRatio, nanoguiScreens, gladInitialized, gladLoaded, winLive,
                   winSize, winFB, winVisible, winTitle, winCallbacks, currentContext,
                   cursorLive, cursorMadeBy, cursorDestroyedTwice, ctorWindow,
                   nShowHide, nVisChanges>>
    /\ UNCHANGED radioVars

\* the host resizes window w (the user drags, minimizes or restores it);
\* the application learns of it at its next poll
HostResize(w, size, fb) ==
    /\ ~aborted
    /\ winLive[w]
    /\ winSize[w] # size \/ winFB[w] # fb
    /\ winSize' = [winSize EXCEPT ![w] = size]
    /\ winFB' = [winFB EXCEPT ![w] = fb]
    /\ op' = [name |-> "host resize", s |-> 0, w |-> w, arg |-> <<fb, size>>,
              ret |-> "ok", pre |-> 0]
    /\ calls' = <<>>
    /\ UNCHANGED <<platform, constructing, gladBuild, hostScale, alive, mGLFWWindow,
                   mShutdownGLFWOnDestruct, mFullscreen, mCursors, mCaption, mVisible,
                   mSize, mFBSize, mPixelRatio, nanoguiScreens, gladInitialized,
                   aborted, gladLoaded, winLive, winVisible, winTitle, winCallbacks,
                   currentContext, cursorLive, cursorMadeBy, cursorDestroyedTwice,
                   ctorWindow, nShowHide, nVisChanges>>
    /\ UNCHANGED radioVars

\* one Screen, constructed with a window of its own, on every platform
InitFrame ==
    /\ \E plat \in {"linux_win", "apple"}, scale \in {1, 2}, junk \in StorageJunk :
           NoScreens(plat, FALSE, scale, junk)
    /\ NoRadioButtons

NextFrame ==
    \/ ConstructOK(1, <<2, 2>>, "a", FALSE, 1)
    \/ ConstructBegin(1, <<2, 2>>, "a", FALSE, 1)
    \/ ConstructEnd
    \/ \E v \in BOOLEAN : SetVisible(1, v)
    \/ \E c \in Captions : SetCaption(1, c)
    \/ \E size \in CtorSizes : SetSize(1, size)
    \/ DrawAll(1)
    \/ \E outcome \in ResizeOutcomes, crash \in BOOLEAN :
           ResizeCallbackEvent(1, outcome, crash)
    \/ \E r \in HostReports : HostResize(1, r[1], r[2])

SpecFrame == InitFrame /\ [][NextFrame]_vars

---------------------------------------------------------------------------
(***************************************************************************)
(* Screen: the host's input callbacks, with several Screens.               *)
(***************************************************************************)
\* the callbacks the constructor installs on its window
EventKinds ==
    {"cursorPos", "mouseButton", "key", "char", "drop", "scroll", "framebufferSize"}

\* the handler each callback forwards to
Handler(ev) ==
    CASE ev = "cursorPos" -> "cursorPosCallbackEvent"
      [] ev = "mouseButton" -> "mouseButtonCallbackEvent"
      [] ev = "key" -> "keyCallbackEvent"
      [] ev = "char" -> "charCallbackEvent"
      [] ev = "drop" -> "dropCallbackEvent"
      [] ev = "scroll" -> "scrollCallbackEvent"
      [] ev = "framebufferSize" -> "resizeCallbackEvent"

\* what the callback finds: the registry's entry for w, whether that Screen
\* object still exists, and the value read from its mProcessEvents
Lookup(w, flag) ==
    [entry |-> nanoguiScreens[w],
     live |-> nanoguiScreens[w] > 0,
     flag |-> flag]

\* how a callback can end: the event is dropped, the handler is invoked and
\* returns (or throws), or the process dies in it. The process can die only
\* where the behaviour is undefined: the registry entry points to a
\* destroyed Screen, or the resize handler reads the sizes of a window that
\* is null or destroyed.
Fates == {"dropped", "invoked", "crash"}

\* lines 357-358: the two reads resizeCallbackEvent() makes of the sizes of
\* the window win, whatever win is
SizeReads(win) ==
    << <<"glfwGetFramebufferSize", win>>, <<"glfwGetWindowSize", win>> >>

\* the calls made when the process dies in the callback of an event ev for
\* the entry e, whose storage names the window win: nothing when it dies
\* reading mProcessEvents or entering the handler (reads = 0), else the
\* handler and the reads begun, the one it dies in included
CallsBeforeCrash(e, ev, win, reads) ==
    IF reads = 0 THEN <<>>
    ELSE << <<Handler(ev), e>> >> \o SubSeq(SizeReads(win), 1, reads)

\* a faulty variant of the gate: mProcessEvents is not looked at
GateIgnoresFlag(e, flag) == e # 0

\* lines 160-164 (and the same in each callback): the handler is called
\* when the registry has an entry e for the window and the mProcessEvents
\* read through it is true
Gate(e, flag) == e # 0 /\ flag

\* the host delivers an event of kind ev on window w: the lambda
\* installed by the constructor looks w up in __nanogui_screens, returns when
\* there is no entry or the Screen's mProcessEvents is false, and else calls
\* the Screen's handler. flag is the value read from mProcessEvents (no code
\* here assigns it; through a dangling pointer it is what the storage
\* holds), outcome what resizeEvent does when it is called. The handler
\* runs on the storage the entry points to: a live Screen, what a destroyed
\* Screen left, or the object the allocator has put there since, under
\* construction or alive. The resize handler reads the two sizes of the
\* window its storage names before any test; where that is undefined (see
\* Fates) the process dies after reads of them (fate "crash") or goes on
\* with what the host still holds for the window, nothing usable for a null
\* handle. An exception that is no std::exception leaves the handler: it ends
\* the process in the host's C code (crash) or reaches the caller of
\* glfwPollEvents(), which ends a constructor that is polling. The host
\* delivers events whenever the application polls: between two calls, or
\* inside a constructor (line 155).
Callback(w, ev, flag, fate, outcome, crash, reads) ==
    /\ ~aborted
    /\ winLive[w]
    /\ winCallbacks[w]
    /\ LET e == nanoguiScreens[w]
           s == IF e < 0 THEN -e ELSE e
           win == mGLFWWindow[s]
           resize == ev = "framebufferSize"
           badHandle == IF win = 0 THEN TRUE ELSE ~winLive[win]
           found == Lookup(w, flag)
           record(ret) == [name |-> "callback", s |-> e, w |-> w, arg |-> ev,
                           ret |-> ret, pre |-> found]
       IN  IF ~Gate(e, flag)
           THEN /\ e = 0 => flag
                /\ fate = "dropped" /\ outcome = "false" /\ ~crash /\ reads = 0
                /\ op' = record("dropped")
                /\ calls' = <<>>
                /\ UNCHANGED <<mFBSize, mSize, aborted, constructing>>
           ELSE IF fate = "crash"
           THEN /\ outcome = "false" /\ ~crash
                /\ IF reads = 0 THEN e < 0
                   ELSE resize /\ (e < 0 \/ badHandle)
                /\ op' = record("crash")
                /\ calls' = CallsBeforeCrash(e, ev, win, reads)
                /\ aborted' = TRUE
                /\ UNCHANGED <<mFBSize, mSize, constructing>>
           ELSE IF ~resize
           THEN /\ fate = "invoked"
                /\ outcome = "false" /\ ~crash /\ reads = 0
                /\ op' = record("invoked")
                /\ calls' = << <<Handler(ev), e>> >>
                /\ UNCHANGED <<mFBSize, mSize, aborted, constructing>>
           ELSE IF win = 0
           THEN /\ fate = "invoked"
                /\ outcome = "false" /\ ~crash /\ reads = 0
                /\ op' = record("invoked")
                /\ calls' = << <<Handler(ev), e>> >> \o SizeReads(win)
                /\ UNCHANGED <<mFBSize, mSize, aborted, constructing>>
           ELSE /\ fate = "invoked"
                /\ reads = 0
                /\ ResizeCore(s, outcome, crash)
                /\ op' = record("invoked")
                /\ calls' = << <<Handler(ev), e>> >> \o ResizeCalls(s)
                /\ constructing' =
                       IF ResizeResult(s, outcome) = "propagate" /\ ~crash
                       THEN NotConstructing ELSE constructing
    /\ UNCHANGED <<platform, gladBuild, hostScale, alive, mGLFWWindow,
                   mShutdownGLFWOnDestruct, mFullscreen, mCursors, mCaption, mVisible,
                   mPixelRatio, nanoguiScreens, gladInitialized, gladLoaded, winLive,
                   winSize, winFB, winVisible, winTitle, winCallbacks, currentContext,
                   cursorLive, cursorMadeBy, cursorDestroyedTwice, ctorWindow,
                   nShowHide, nVisChanges>>
    /\ UNCHANGED radioVars

\* the events the host may deliver at one glfwPollEvents(): what
\* resizeEvent does matters when the resize handler is invoked, the reads
\* begun when the process dies in it
Delivered(w, ev) ==
    LET resize == ev = "framebufferSize"
    IN  \E fate \in Fates :
        \E flag \in BOOLEAN,
           outcome \in (IF resize /\ fate = "invoked" THEN ResizeOutcomes ELSE {"false"}),
           crash \in (IF resize /\ fate = "invoked" THEN BOOLEAN ELSE {FALSE}),
           reads \in (IF resize /\ fate = "crash" THEN 0 .. 2 ELSE {0}) :
            Callback(w, ev, flag, fate, outcome, crash, reads)

\* the size the host resizes a window to between two polls
PolledSize == <<2, 4>>

\* the lifecycle of Screens: constructions that succeed, throw or die,
\* initialize() calls and destructions in any order, in any storage that
\* holds no object, with windows the application creates itself
Next ==
    \/ \E s \in Screens : DefaultConstruct(s)
    \/ \E s \in Screens : ConstructNoWindow(s, <<2, 2>>, "a", FALSE)
    \/ \E s \in Screens, w \in Windows :
           FreeHandle(w) /\ ConstructNoLoader(s, <<2, 2>>, "a", FALSE, w)
    \/ \E s \in Screens, w \in Windows :
           FreeHandle(w) /\ ConstructOK(s, <<2, 2>>, "a", FALSE, w)
    \/ \E s \in Screens, w \in Windows :
           FreeHandle(w) /\ ConstructUnloadedCrash(s, <<2, 2>>, "a", FALSE, w)
    \/ \E s \in Screens, w \in Windows, sh \in BOOLEAN : InitializeOK(s, w, sh)
    \/ \E s \in Screens, w \in Windows, sh \in BOOLEAN : InitializeNoLoader(s, w, sh)
    \/ \E s \in Screens, w \in Windows, sh \in BOOLEAN :
           InitializeUnloadedCrash(s, w, sh)
    \/ \E s \in Screens, crash \in BOOLEAN : Destroy(s, crash)
    \/ \E w \in Windows : FreeHandle(w) /\ HostCreateWindow(w, TRUE)

Spec == InitScreens /\ [][Next]_vars

\* an Apple build without GLAD: the constructor polls the host's events
\* halfway (line 155), and the callbacks of the windows that exist run
\* inside it
InitEvents ==
    /\ \E junk \in StorageJunk : NoScreens("apple", FALSE, 1, junk)
    /\ NoRadioButtons

\* Screens constructed with windows of their own, the last one also
\* without one, initialized again with a window that exists (which they own from then
\* on) and destroyed in any order in that build, with events
\* delivered whenever the application polls, frames drawn and windows
\* resized by the host in between
NextEvents ==
    \/ \E s \in Screens, w \in Windows :
           FreeHandle(w) /\ ConstructBegin(s, <<2, 2>>, "a", FALSE, w)
    \/ ConstructEnd
    \/ DefaultConstruct(NumScreens)
    \/ \E s \in Screens, w \in Windows :
           FreeHandle(w) /\ ConstructOK(s, <<2, 2>>, "a", FALSE, w)
    \/ \E s \in Screens, w \in Windows : InitializeOK(s, w, TRUE)
    \/ \E s \in Screens, crash \in BOOLEAN : Destroy(s, crash)
    \/ \E w \in Windows, ev \in EventKinds : Delivered(w, ev)
    \/ \E s \in Screens : DrawAll(s)
    \/ \E w \in Windows : HostResize(w, PolledSize, HostFramebuffer(PolledSize))

SpecEvents == InitEvents /\ [][NextEvents]_vars

---------------------------------------------------------------------------
(***************************************************************************)
(* Claims about the radio buttons (checked under SpecRadio).               *)
(***************************************************************************)
\* the radio group button b belongs to: its explicit list when it has one,
\* else its siblings that carry the RadioButton flag
GroupOf(b) ==
    IF mButtonGroup[b] # <<>> THEN Range(mButtonGroup[b])
    ELSE {w \in Widgets : /\ parentOf[w] = parentOf[b]
                          /\ IsButton(w)
                          /\ "RadioButton" \in mFlags[w]}

CheckedIcon == ctorIcons[1]
UncheckedIcon == ctorIcons[2]

C9_CheckedAfterToggle ==
    lastToggle.b # 0 =>
        /\ mIcon[lastToggle.b] = CheckedIcon
        /\ \A c \in Range(ScannedList(lastToggle.b)) \ {lastToggle.b} :
               (IsRadioButton(c) /\ lastToggle.pushed[c]) => mIcon[c] = UncheckedIcon

\* the widgets whose icons toggle() on this exchanges, given the pushed
\* states the call began in: this, and every other RadioButton of the
\* scanned list that carries the RadioButton flag and was pushed
Exchanged(this, pushed) ==
    {this} \cup {c \in Range(ScannedList(this)) :
                    /\ IsRadioButton(c)
                    /\ "RadioButton" \in mFlags[c]
                    /\ pushed[c]}

\* C9 (amended): toggle() on b exchanges b's mIcon and mOtherIcon, so b
\* displays its checked icon exactly when it displayed the unchecked one
\* as the call began; it exchanges the two icons of every other RadioButton
\* of the scanned list that carries the RadioButton flag and was pushed when
\* the call began (before the base toggle changed any pushed state), and
\* leaves the icons of every other widget as they were
C9_IconsExchanged ==
    lastToggle.b # 0 =>
        /\ (mIcon[lastToggle.b] = CheckedIcon)
               <=> (lastToggle.icon[lastToggle.b] = UncheckedIcon)
        /\ \A c \in Widgets :
               IF c \in Exchanged(lastToggle.b, lastToggle.pushed)
               THEN /\ mIcon[c] = lastToggle.other[c]
                    /\ mOtherIcon[c] = lastToggle.icon[c]
               ELSE /\ mIcon[c] = lastToggle.icon[c]
                    /\ mOtherIcon[c] = lastToggle.other[c]

\* C9's case: toggle() on a button that displayed its checked icon, with a
\* pushed RadioButton peer in the scanned list: both have their icons
\* exchanged
C9_Witness ==
    /\ lastToggle.b # 0
    /\ lastToggle.icon[lastToggle.b] = CheckedIcon
    /\ mIcon[lastToggle.b] = UncheckedIcon
    /\ \E c \in Range(ScannedList(lastToggle.b)) \ {lastToggle.b} :
           /\ IsRadioButton(c)
           /\ lastToggle.pushed[c]
           /\ mIcon[c] = lastToggle.other[c]
           /\ mIcon[c] # lastToggle.icon[c]

\* C10: toggle() on a button with a non-empty mButtonGroup leaves mIcon and
\* mOtherIcon of every widget outside that list (other than the button
\* itself) unchanged, pushed radio siblings included; with an empty
\* mButtonGroup the pushed radio siblings are the ones swapped
C10_ExplicitGroupFirst ==
    lastToggle.b # 0 =>
        LET this == lastToggle.b
            listed == Range(mButtonGroup[this])
            sibs == {w \in Widgets : parentOf[w] = parentOf[this]}
        IN  /\ mButtonGroup[this] # <<>> =>
                  \A c \in Widgets \ (listed \cup {this}) :
                      /\ mIcon[c] = lastToggle.icon[c]
                      /\ mOtherIcon[c] = lastToggle.other[c]
            /\ mButtonGroup[this] = <<>> =>
                  \A c \in Widgets \ {this} :
                      (mIcon[c] # lastToggle.icon[c]) <=>
                          (c \in sibs /\ IsRadioButton(c) /\ lastToggle.pushed[c])

\* C10's case: the toggled button has an explicit group with a pushed peer in
\* it, and a pushed RadioButton sibling outside it
C10_Witness ==
    /\ lastToggle.b # 0
    /\ mButtonGroup[lastToggle.b] # <<>>
    /\ \E c \in Widgets \ (Range(mButtonGroup[lastToggle.b]) \cup {lastToggle.b}) :
           /\ parentOf[c] = parentOf[lastToggle.b]
           /\ IsRadioButton(c)
           /\ lastToggle.pushed[c]
           /\ mIcon[c] = CheckedIcon
    /\ \E d \in Range(mButtonGroup[lastToggle.b]) \ {lastToggle.b} :
           lastToggle.pushed[d] /\ mIcon[d] = UncheckedIcon

---------------------------------------------------------------------------
(***************************************************************************)
(* Claims about the Screen's registry and destructor (under Spec).         *)
(***************************************************************************)
\* the most recent operation made the host call named n this many times
CallCount(n) == Cardinality({i \in 1 .. Len(calls) : calls[i][1] = n})

\* the position of the call named n among the operation's calls
CallIndex(n) == CHOOSE i \in 1 .. Len(calls) : calls[i][1] = n

\* both calls are made exactly once, a before b
Before(a, b) ==
    /\ CallCount(a) = 1
    /\ CallCount(b) = 1
    /\ CallIndex(a) < CallIndex(b)

\* C2: from its successful construction with a new window until its
\* destructor runs, a Screen is what __nanogui_screens maps that window's
\* handle to, whatever other Screens are constructed, initialized or
\* destroyed in between.
C2_RegistryKeepsConstructed ==
    \A s \in Screens :
        (alive[s] /\ ctorWindow[s] # 0) => nanoguiScreens[ctorWindow[s]] = s

\* C3: after a Screen's destructor completes the registry has no entry for
\* its window handle, every cursor the Screen created has been destroyed
\* exactly once, and the window was destroyed iff the Screen owned it.
C3_DestructorReleasesAll ==
    op.name = "~Screen" =>
        /\ op.w # 0 => nanoguiScreens[op.w] = 0
        /\ \A c \in cursorLive : cursorMadeBy[c] # op.s
        /\ ~cursorDestroyedTwice
        /\ op.pre.owned <=> (CallCount("glfwDestroyWindow") = 1)

---------------------------------------------------------------------------
(***************************************************************************)
(* Claims about resize events, frames and setters (under SpecFrame).       *)
(***************************************************************************)
\* the logical window size of the event the most recent operation handled
ReportedLogicalSize ==
    IF platform = "linux_win" THEN DivideBy(op.arg[2], mPixelRatio[op.s])
    ELSE op.arg[2]

\* C4: whenever the framebuffer size or the window size the host reports for
\* a resize event is (0,0), resizeCallbackEvent returns false, leaves the
\* stored mFBSize and mSize unchanged and does not call resizeEvent.
C4_ZeroSizedRejected ==
    (op.name = "resizeCallbackEvent" /\ (op.arg[1] = Zero2 \/ op.arg[2] = Zero2)) =>
        /\ op.ret = "false"
        /\ mFBSize[op.s] = op.pre[1]
        /\ mSize[op.s] = op.pre[2]
        /\ CallCount("resizeEvent") = 0

\* C5: whenever the host reports a non-zero framebuffer size and a non-zero
\* window size, resizeCallbackEvent stores both and calls resizeEvent(mSize)
\* exactly once, in every reachable state of the Screen.
C5_ValidResizePropagated ==
    (op.name = "resizeCallbackEvent" /\ op.arg[1] # Zero2 /\ ReportedLogicalSize # Zero2) =>
        /\ mFBSize[op.s] = op.arg[1]
        /\ mSize[op.s] = ReportedLogicalSize
        /\ CallCount("resizeEvent") = 1
        /\ calls[Len(calls)] = <<"resizeEvent", mSize[op.s]>>

\* C6 as stated: every drawAll() recomputes the sizes from the host, then
\* clears, then calls drawContents, drawWidgets and the swap, each exactly
\* once and in this order, the swap last.
C6_RecomputeThenClear ==
    op.name = "drawAll" =>
        /\ Before("glfwGetFramebufferSize", "glClear")
        /\ Before("glfwGetWindowSize", "glClear")
        /\ Before("glClear", "drawContents")
        /\ Before("drawContents", "drawWidgets")
        /\ Before("drawWidgets", "glfwSwapBuffers")
        /\ calls[Len(calls)][1] = "glfwSwapBuffers"

\* C6 (amended): every drawAll() clears first, then makes the window's
\* context current and reads the framebuffer and window size from the host,
\* sets the viewport, calls drawContents once, calls drawWidgets once exactly
\* when the Screen is visible, and swaps the buffers once as its last call;
\* no drawing call comes before the clear.
C6_FrameOrder ==
    op.name = "drawAll" =>
        /\ Before("glClearColor", "glClear")
        /\ Before("glClear", "glfwMakeContextCurrent")
        /\ Before("glfwMakeContextCurrent", "glfwGetFramebufferSize")
        /\ Before("glfwGetFramebufferSize", "glfwGetWindowSize")
        /\ Before("glfwGetWindowSize", "glViewport")
        /\ Before("glViewport", "drawContents")
        /\ IF op.pre
           THEN Before("drawContents", "drawWidgets")
                /\ Before("drawWidgets", "glfwSwapBuffers")
           ELSE CallCount("drawWidgets") = 0
                /\ Before("drawContents", "glfwSwapBuffers")
        /\ calls[Len(calls)] = <<"glfwSwapBuffers", op.w>>
        /\ platform # "linux_win" =>
               /\ mSize[op.s] = winSize[op.w]
               /\ mFBSize[op.s] = winFB[op.w]
        /\ platform = "linux_win" =>
               /\ mSize[op.s] = DivideBy(winSize[op.w], mPixelRatio[op.s])
               /\ mFBSize[op.s] = ScaleBy(mSize[op.s], mPixelRatio[op.s])

\* a frame of an invisible Screen: drawContents is called, drawWidgets is not
C6_Witness ==
    /\ op.name = "drawAll"
    /\ ~op.pre
    /\ CallCount("drawContents") = 1
    /\ CallCount("drawWidgets") = 0

\* the fields of the Screens and the state of their windows
ScreenState ==
    <<alive, mGLFWWindow, mShutdownGLFWOnDestruct, mFullscreen, mCursors, mCaption,
      mVisible, mSize, mFBSize, mPixelRatio, nanoguiScreens, winLive, winSize, winFB,
      winVisible, winTitle, currentContext>>

\* C7: setVisible(v) with mVisible = v and setCaption(c) with mCaption = c
\* make no host call and leave the Screen unchanged; with another value
\* they store it and make exactly one matching host call; so the number of
\* show/hide calls equals the number of visibility changes.
C7_ShortCircuit ==
    /\ [](nShowHide = nVisChanges)
    /\ [][/\ op'.name = "setVisible" =>
               IF op'.arg = mVisible[op'.s]
               THEN calls' = <<>> /\ UNCHANGED ScreenState
               ELSE /\ mVisible'[op'.s] = op'.arg
                    /\ calls' = << <<IF op'.arg THEN "glfwShowWindow"
                                     ELSE "glfwHideWindow", op'.w>> >>
          /\ op'.name = "setCaption" =>
               IF op'.arg = mCaption[op'.s]
               THEN calls' = <<>> /\ UNCHANGED ScreenState
               ELSE /\ mCaption'[op'.s] = op'.arg
                    /\ calls' = << <<"glfwSetWindowTitle", op'.w, op'.arg>> >>
         ]_vars

\* setVisible with the stored value, after the visibility has changed before
C7_Witness ==
    /\ op.name = "setVisible"
    /\ op.arg = op.pre
    /\ calls = <<>>
    /\ nVisChanges > 0

\* C8 as stated: setSize(s) with the current logical size already s makes no
\* host window-size call.
C8_UnchangedSizeNotForwarded ==
    (op.name = "setSize" /\ op.arg = op.pre) => calls = <<>>

\* C8 (amended): every setSize(s), also one with the current size, stores s
\* and makes exactly one glfwSetWindowSize call, with s scaled by the pixel
\* ratio on Windows and Linux.
C8_AlwaysForwarded ==
    op.name = "setSize" =>
        /\ mSize[op.s] = op.arg
        /\ calls = << <<"glfwSetWindowSize", op.w,
                        IF platform = "linux_win"
                        THEN ScaleBy(op.arg, mPixelRatio[op.s]) ELSE op.arg>> >>

\* setSize with the size the Screen already has: the host is called all the same
C8_Witness ==
    /\ op.name = "setSize"
    /\ op.arg = op.pre
    /\ Len(calls) = 1

---------------------------------------------------------------------------
(***************************************************************************)
(* Claims about failures (C11 under Spec, C12 under SpecFrame).            *)
(***************************************************************************)
\* C11: a Screen construction in which window creation or the GL loader
\* fails throws: no Screen object comes into existence, the registry is
\* unchanged, and no input callback is installed (the window the failed
\* construction may have created has neither callbacks nor a registry entry).
C11_FailedConstruction ==
    [][(op'.name = "Screen(size)" /\ op'.ret \in {"throw context", "throw loader"}) =>
           /\ UNCHANGED <<alive, nanoguiScreens, ctorWindow>>
           /\ \A t \in Screens :
                  alive[t] => /\ mGLFWWindow'[t] = mGLFWWindow[t]
                              /\ mCursors'[t] = mCursors[t]
           /\ \A w \in Windows : winCallbacks'[w] => winCallbacks[w]
           /\ op'.w # 0 => /\ ~winCallbacks'[op'.w]
                           /\ nanoguiScreens'[op'.w] = 0
      ]_vars

\* a construction has failed at the GL loader: its window exists, without
\* callbacks and unregistered, and there is no Screen object
C11_Witness ==
    /\ op.name = "Screen(size)"
    /\ op.ret = "throw loader"
    /\ winLive[op.w]
    /\ ~winCallbacks[op.w]
    /\ nanoguiScreens[op.w] = 0
    /\ ~alive[op.s]

\* C12 as stated: whenever resizeEvent raises an exception, it is caught
\* inside resizeCallbackEvent and the process aborts; it never propagates.
C12_EveryExceptionAborts ==
    (op.name = "resizeCallbackEvent" /\ op.ret \in {"abort", "propagate"}) =>
        /\ op.ret = "abort"
        /\ aborted

\* C12 (amended): when resizeEvent raises an exception derived from
\* std::exception, it is caught inside resizeCallbackEvent after the sizes
\* were stored and the process aborts: nothing is processed afterwards.
C12_StdExceptionAborts ==
    /\ []((op.name = "resizeCallbackEvent" /\ op.ret = "abort") =>
              /\ aborted
              /\ CallCount("resizeEvent") = 1
              /\ mFBSize[op.s] = op.arg[1])
    /\ [][~aborted]_vars

\* resizeEvent threw a std::exception during a valid resize that changed the
\* stored sizes: the process is aborted
C12_Witness ==
    /\ op.name = "resizeCallbackEvent"
    /\ op.ret = "abort"
    /\ aborted
    /\ mFBSize[op.s] # op.pre[1]

---------------------------------------------------------------------------
(***************************************************************************)
(* Claims about the registry and the GL loader (under Spec).               *)
(***************************************************************************)
\* C13: the registry never holds a stale entry: every entry maps a handle
\* to a Screen that is alive and whose current mGLFWWindow is that handle.
C13_NoStaleEntry ==
    \A w \in Windows :
        nanoguiScreens[w] # 0 =>
            /\ nanoguiScreens[w] \in Screens
            /\ alive[nanoguiScreens[w]]
            /\ mGLFWWindow[nanoguiScreens[w]] = w

---------------------------------------------------------------------------
(***************************************************************************)
(* Icon and pushed state of the radio buttons (under SpecRadio).           *)
(***************************************************************************)
\* C15: after any sequence of toggle() calls each RadioButton displays its
\* checked icon iff it is pushed; in particular (the part stated here, which
\* is about the icons alone) at most one RadioButton of a group (explicit
\* list, or else the flagged siblings) displays the checked icon.
C15_AtMostOneChecked ==
    \A b \in Widgets :
        IsRadioButton(b) =>
            Cardinality({c \in GroupOf(b) :
                            IsRadioButton(c) /\ mIcon[c] = CheckedIcon}) <= 1

---------------------------------------------------------------------------
(***************************************************************************)
(* Claims about several Screens: callbacks and frames (under SpecEvents).  *)
(***************************************************************************)
\* C14: a callback for window w invokes the matching handler of Screen s
\* only if the registry maps w to s at that moment and the mProcessEvents
\* read through that entry is true, and the handler invoked is the one of
\* the registered Screen and of the event's kind; with no entry or with
\* mProcessEvents false the event is dropped: no handler is called and no
\* Screen or widget state changes.
C14_DispatchGated ==
    /\ [](op.name = "callback" =>
              /\ op.pre.entry = nanoguiScreens[op.w]
              /\ op.ret = "invoked" =>
                     /\ op.pre.entry # 0
                     /\ op.pre.flag
                     /\ Head(calls) = <<Handler(op.arg), nanoguiScreens[op.w]>>
                     /\ \A i \in 1 .. Len(calls) :
                            calls[i][1] \in {Handler(ev) : ev \in EventKinds}
                                => calls[i] = Head(calls)
              /\ (op.pre.entry = 0 \/ ~op.pre.flag) =>
                     /\ op.ret = "dropped"
                     /\ calls = <<>>)
    /\ [][(op'.name = "callback" /\ op'.ret = "dropped") =>
               /\ UNCHANGED ScreenState
               /\ UNCHANGED radioVars]_vars

\* two Screens are registered, each for its own window, and an event on one
\* window has invoked the handler of the Screen registered for it; an event
\* whose Screen has mProcessEvents false is dropped in another run
C14_Witness ==
    /\ op.name = "callback"
    /\ op.ret = "invoked"
    /\ op.pre.entry > 0
    /\ \E v \in Windows \ {op.w} :
           nanoguiScreens[v] > 0 /\ nanoguiScreens[v] # nanoguiScreens[op.w]
    /\ Head(calls) = <<Handler(op.arg), nanoguiScreens[op.w]>>

\* the rendering operations of a frame
RenderingCalls ==
    {"glClearColor", "glClear", "glViewport", "drawContents", "drawWidgets",
     "glfwSwapBuffers"}

\* C16: every rendering operation issued by a Screen's drawAll is applied
\* while that Screen's own window context is the current one.
C16_DrawsIntoOwnContext ==
    op.name = "drawAll" =>
        \A i \in 1 .. Len(calls) :
            calls[i][1] \in RenderingCalls => calls[i][2] = op.w

=============================================================================
